---- MODULE Spec2Model ----
(***************************************************************************)
(* A model of the z3b rule engine of saycbridge: the preconditions of      *)
(* src/z3b/preconditions.py evaluated over an auction history, and the     *)
(* Rule contract of src/z3b/rules.py (call enumeration, constraint         *)
(* assembly, priority computation, memoization).                           *)
(*                                                                         *)
(* Python values are modelled as follows.  A Call is a record              *)
(* [kind, level, strain]; Python's None, where a call is expected, is the  *)
(* record NoCall.  The value a Python function returns is one of the       *)
(* strings "True", "False", "None", or, when the evaluation raises,        *)
(* "raise".                                                                *)
(***************************************************************************)
EXTENDS Integers, Sequences, FiniteSets, TLC

VARIABLES
    call_history,     \* history.call_history: the calls made so far, oldest first
    call_annotations, \* the list of annotations attached to each call
    call_max_points,  \* the upper bound on the caller's points each call showed
    query,            \* the last evaluation of preconditions: [call, results]
    rule,             \* the Rule object: its declaration and whether __init__ passed
    solver,           \* the solver's state: the expressions the hand can satisfy
    cache,            \* the memo table of priority_for_call_and_hand
    oracle_calls,     \* how many times is_possible was invoked
    log,              \* every priority query made, with what it returned
    yielded,          \* what the last calls_over generator produced
    rules             \* StandardAmericanYellowCard.rules: the rules instantiated so far

vars == <<call_history, call_annotations, call_max_points, query,
          rule, solver, cache, oracle_calls, log, yielded, rules>>

auction == <<call_history, call_annotations, call_max_points>>
engine == <<rule, solver, cache, oracle_calls, log, rules>>

----------------------------------------------------------------------------
(* Bounds of the model.                                                    *)

\* The highest level of a contract call made in the auction.
MaxAuctionLevel == 1
\* The highest level of a candidate call handed to fits.
MaxCandidateLevel == 3
\* The number of calls the auction may hold.
MaxCalls == 4
\* The largest exact_size a Jump precondition is built with.
MaxExactSize == 2
\* The number of priority queries made of one rule.
MaxQueries == 2

----------------------------------------------------------------------------
(* The call model (core.call, core.suit).                                  *)

CLUBS == 0
DIAMONDS == 1
HEARTS == 2
SPADES == 3
NOTRUMP == 4

SUITS == {CLUBS, DIAMONDS, HEARTS, SPADES}
STRAINS == SUITS \cup {NOTRUMP}

\* call.strain of a call that is no contract (None in Python).
NoStrain == -1

NoCall == [kind |-> "none", level |-> 0, strain |-> NoStrain]
Pass == [kind |-> "pass", level |-> 0, strain |-> NoStrain]
Double == [kind |-> "double", level |-> 0, strain |-> NoStrain]
Redouble == [kind |-> "redouble", level |-> 0, strain |-> NoStrain]

Contract(level, strain) == [kind |-> "contract", level |-> level, strain |-> strain]

ContractsTo(maxLevel) == {Contract(l, s) : l \in 1..maxLevel, s \in STRAINS}

CallsTo(maxLevel) == {Pass, Double, Redouble} \cup ContractsTo(maxLevel)

is_pass(call) == call.kind = "pass"
is_double(call) == call.kind = "double"
is_redouble(call) == call.kind = "redouble"
is_contract(call) == call.kind = "contract"

\* The calls the auction is built from, and the candidates fits is asked about.
AuctionCalls == CallsTo(MaxAuctionLevel)
CandidateCalls == CallsTo(MaxCandidateLevel)

----------------------------------------------------------------------------
(* Python's truth values.                                                  *)

PyBool(b) == IF b THEN "True" ELSE "False"

\* `not x` of a value that is None or a call object.
IsNone(call) == call.kind = "none"

----------------------------------------------------------------------------
(* The history (z3b.model.History) as the preconditions read it.  Seats    *)
(* are relative to the player on turn: the last call made is RHO's, the    *)
(* one before it partner's, then LHO's, then the player's own.             *)

positions == {"Me", "LHO", "Partner", "RHO"}

\* How many calls back from the end of the auction a seat's last call lies.
SeatOffset(position) ==
    CASE position = "RHO" -> 0
      [] position = "Partner" -> 1
      [] position = "LHO" -> 2
      [] position = "Me" -> 3

\* The indices of the calls a seat made.
CallIndices(calls, position) ==
    {i \in 1..Len(calls) : (Len(calls) - i) % 4 = SeatOffset(position)}

\* history.view_for(position).last_call: None when the seat has not called.
LastIndex(calls, position) == Len(calls) - SeatOffset(position)

last_call(calls, position) ==
    IF LastIndex(calls, position) >= 1
    THEN calls[LastIndex(calls, position)]
    ELSE NoCall

\* history.call_history.last_contract(): None when no contract was bid.
ContractIndices(calls) == {i \in 1..Len(calls) : is_contract(calls[i])}

Max(S) == CHOOSE x \in S : \A y \in S : y <= x

last_contract(calls) ==
    IF ContractIndices(calls) = {}
    THEN NoCall
    ELSE calls[Max(ContractIndices(calls))]

----------------------------------------------------------------------------
(* The legal-call enumerator (core.callexplorer.CallExplorer).             *)

NonPassIndices(calls) == {i \in 1..Len(calls) : ~is_pass(calls[i])}

\* The last call that is not a pass, and how many calls back it was made.
LastNonPassIndex(calls) ==
    IF NonPassIndices(calls) = {} THEN 0 ELSE Max(NonPassIndices(calls))

\* An opponent made the call at index i: RHO's and LHO's calls lie an even
\* number of calls back.
ByOpponent(calls, i) == (Len(calls) - i) % 2 = 0

Higher(call, other) ==
    \/ call.level > other.level
    \/ call.level = other.level /\ call.strain > other.strain

AuctionComplete(calls) ==
    /\ Len(calls) >= 4
    /\ \A i \in (Len(calls) - 2)..Len(calls) : is_pass(calls[i])

IsLegalCall(calls, call) ==
    /\ ~AuctionComplete(calls)
    /\ \/ is_pass(call)
       \/ /\ is_contract(call)
          /\ IsNone(last_contract(calls)) \/ Higher(call, last_contract(calls))
       \/ /\ is_double(call)
          /\ LastNonPassIndex(calls) > 0
          /\ is_contract(calls[LastNonPassIndex(calls)])
          /\ ByOpponent(calls, LastNonPassIndex(calls))
       \/ /\ is_redouble(call)
          /\ LastNonPassIndex(calls) > 0
          /\ is_double(calls[LastNonPassIndex(calls)])
          /\ ByOpponent(calls, LastNonPassIndex(calls))

possible_calls_over(calls, universe) == {c \in universe : IsLegalCall(calls, c)}

----------------------------------------------------------------------------
(* The Jump family (preconditions.py, class Jump and its subclasses).      *)

\* exact_size is None (<<>>) or a number (<<n>>).
NoExactSize == <<>>
ExactSizes == {NoExactSize} \cup {<<n>> : n \in 0..MaxExactSize}

\* A jump size that takes only a strictly lower strain to cost a level.
_jump_size_strict(last, call) ==
    IF call.strain < last.strain
    THEN call.level - last.level - 1
    ELSE call.level - last.level

\* A jump size that is the difference of the levels, whatever the strains.
_jump_size_levels(last, call) == call.level - last.level

\* A jump size that takes a higher strain, not a lower one, to cost a level.
_jump_size_reversed(last, call) ==
    IF call.strain >= last.strain
    THEN call.level - last.level - 1
    ELSE call.level - last.level

\* Jump._jump_size
_jump_size(last, call) ==
    IF call.strain <= last.strain
    THEN call.level - last.level - 1
    ELSE call.level - last.level

\* JumpFromLastContract._last_call, JumpFromMyLastBid._last_call,
\* JumpFromPartnerLastBid._last_call
Jump_last_call(reference, calls) ==
    CASE reference = "LastContract" -> last_contract(calls)
      [] reference = "MyLastBid" -> last_call(calls, "Me")
      [] reference = "PartnerLastBid" -> last_call(calls, "Partner")

JumpReferences == {"LastContract", "MyLastBid", "PartnerLastBid"}

\* The candidate compared as it is, a double or redouble included.
Jump_compared_call_unrewritten(calls, call) == call

\* The candidate after the rewrite of a double or redouble.
Jump_compared_call(calls, call) ==
    IF is_double(call) \/ is_redouble(call) THEN last_contract(calls) ELSE call

\* The mutation of Jump.fits that, given no exact size, takes only a
\* positive size for a jump.
Jump_fits_positive(reference, exact_size, calls, call) ==
    IF is_pass(call) THEN "False"
    ELSE IF IsNone(Jump_last_call(reference, calls))
            \/ ~is_contract(Jump_last_call(reference, calls))
    THEN "False"
    ELSE IF IsNone(Jump_compared_call(calls, call)) THEN "raise"
    ELSE IF exact_size = NoExactSize
    THEN PyBool(_jump_size(Jump_last_call(reference, calls),
                           Jump_compared_call(calls, call)) > 0)
    ELSE PyBool(exact_size[1] = _jump_size(Jump_last_call(reference, calls),
                                           Jump_compared_call(calls, call)))

\* Jump.fits
Jump_fits(reference, exact_size, calls, call) ==
    IF is_pass(call) THEN "False"
    ELSE IF IsNone(Jump_last_call(reference, calls))
            \/ ~is_contract(Jump_last_call(reference, calls))
    THEN "False"
    ELSE IF IsNone(Jump_compared_call(calls, call)) THEN "raise"
    ELSE IF exact_size = NoExactSize
    THEN PyBool(_jump_size(Jump_last_call(reference, calls),
                           Jump_compared_call(calls, call)) # 0)
    ELSE PyBool(exact_size[1] = _jump_size(Jump_last_call(reference, calls),
                                           Jump_compared_call(calls, call)))

----------------------------------------------------------------------------
(* What the history knows of the annotations and of partner's strength.    *)

annotations == {"Opening", "Artificial"}

\* The most points a hand can hold: nothing is known of a seat that has
\* not called.
HandMaxPoints == 37

\* The annotations attached to one call are a list, as a rule declares
\* them; a tag attached again appears in it again.
Range(seq) == {seq[i] : i \in DOMAIN seq}

\* history.annotations: every annotation attached to some call.
history_annotations(annots) == UNION {Range(annots[i]) : i \in 1..Len(annots)}

\* history.annotations_for_position(position)
annotations_for_position(annots, position) ==
    UNION {Range(annots[i]) : i \in CallIndices(annots, position)}

\* history.view_for(position).annotations_for_last_call
annotations_for_last_call(annots, position) ==
    IF LastIndex(annots, position) >= 1
    THEN Range(annots[LastIndex(annots, position)])
    ELSE {}

Min(S) == CHOOSE x \in S : \A y \in S : x <= y

\* The upper bound on a seat's points, as its calls showed it.
max_points(points, position) ==
    Min({HandMaxPoints} \cup {points[i] : i \in CallIndices(points, position)})

\* history.partner.could_have_more_points_than(n)
could_have_more_points_than(points, position, n) ==
    max_points(points, position) > n

\* The history the preconditions are handed.
History == [calls |-> call_history,
            annots |-> call_annotations,
            points |-> call_max_points]

----------------------------------------------------------------------------
(* ForcedToBid (preconditions.py, class ForcedToBid).  The helpers return  *)
(* Python values that are used for their truth only.                       *)

\* ForcedToBid._rho_bid
_rho_bid(h) ==
    ~IsNone(last_call(h.calls, "RHO")) /\ ~is_pass(last_call(h.calls, "RHO"))

\* ForcedToBid._partner_last_bid_was_pass
_partner_last_bid_was_pass(h) ==
    ~IsNone(last_call(h.calls, "Partner")) /\ is_pass(last_call(h.calls, "Partner"))

\* ForcedToBid._partner_last_call_was_artificial
_partner_last_call_was_artificial(h) ==
    "Artificial" \in annotations_for_last_call(h.annots, "Partner")

\* The points partner must be able to exceed to count as unbounded.
UnboundedPoints == 25

\* ForcedToBid._is_forced_to_bid
_is_forced_to_bid(h) ==
    IF _partner_last_bid_was_pass(h) THEN "False"
    ELSE IF _rho_bid(h) THEN "False"
    ELSE IF _partner_last_call_was_artificial(h) THEN "True"
    ELSE PyBool(could_have_more_points_than(h.points, "Partner", UnboundedPoints))

\* ForcedToBid.fits
ForcedToBid_fits(h, call) == _is_forced_to_bid(h)

----------------------------------------------------------------------------
(* The other preconditions of preconditions.py.                            *)

\* NoOpening.fits
NoOpening_fits(h, call) == PyBool("Opening" \notin history_annotations(h.annots))

\* The mutation of Opened.fits that reads the seat's last call only.
Opened_fits_last_call(position, h, call) ==
    PyBool("Opening" \in annotations_for_last_call(h.annots, position))

\* Opened.fits
Opened_fits(position, h, call) ==
    PyBool("Opening" \in annotations_for_position(h.annots, position))

\* NoCompetition.fits: `last_call and not last_call.is_pass()`
NoCompetition_fits(h, call) ==
    IF IsNone(last_call(h.calls, "RHO")) THEN "None"
    ELSE PyBool(~is_pass(last_call(h.calls, "RHO")))

\* LastBidHasAnnotation.fits
LastBidHasAnnotation_fits(position, annotation, h, call) ==
    PyBool(annotation \in annotations_for_last_call(h.annots, position))

\* LastBidHasStrain.fits: `last_call and last_call.strain == self.strain`
LastBidHasStrain_fits(position, strain, h, call) ==
    IF IsNone(last_call(h.calls, position)) THEN "None"
    ELSE PyBool(last_call(h.calls, position).strain = strain)

\* LastBidWasSuit.fits
LastBidWasSuit_fits(position, h, call) ==
    IF IsNone(last_call(h.calls, position)) THEN "None"
    ELSE PyBool(last_call(h.calls, position).strain \in SUITS)

\* LastBidHasLevel.fits
LastBidHasLevel_fits(position, level, h, call) ==
    IF IsNone(last_call(h.calls, position)) THEN "None"
    ELSE PyBool(last_call(h.calls, position).level = level)

\* SuitLowerThanMyLastSuit.fits: the bidder's last call is read without a
\* test for None.
SuitLowerThanMyLastSuit_fits(h, call) ==
    IF call.strain \notin SUITS THEN "False"
    ELSE IF IsNone(last_call(h.calls, "Me")) THEN "raise"
    ELSE IF last_call(h.calls, "Me").strain \notin SUITS THEN "False"
    ELSE PyBool(call.strain < last_call(h.calls, "Me").strain)

\* RebidSameSuit.fits: `history.me.last_call and call.strain == ...strain`
RebidSameSuit_fits(h, call) ==
    IF call.strain \notin SUITS THEN "False"
    ELSE IF IsNone(last_call(h.calls, "Me")) THEN "None"
    ELSE PyBool(call.strain = last_call(h.calls, "Me").strain)

\* Strain.fits
Strain_fits(strain, h, call) == PyBool(call.strain = strain)

\* MaxLevel.fits: for a double the last contract is read without a test for
\* None.
MaxLevel_fits(max_level, h, call) ==
    IF is_double(call)
    THEN IF IsNone(last_contract(h.calls)) THEN "raise"
         ELSE PyBool(last_contract(h.calls).level <= max_level)
    ELSE PyBool(is_contract(call) /\ call.level <= max_level)

----------------------------------------------------------------------------
(* Precondition objects: the class and the constructor's arguments.        *)

Precondition(cls, exact_size, position, arg, annotation) ==
    [cls |-> cls, exact_size |-> exact_size, position |-> position,
     arg |-> arg, annotation |-> annotation]

Plain(cls) == Precondition(cls, NoExactSize, "", 0, "")

JumpFromLastContract(exact_size) ==
    Precondition("JumpFromLastContract", exact_size, "", 0, "")
JumpFromMyLastBid(exact_size) ==
    Precondition("JumpFromMyLastBid", exact_size, "", 0, "")
JumpFromPartnerLastBid(exact_size) ==
    Precondition("JumpFromPartnerLastBid", exact_size, "", 0, "")

\* The NotJump constructors pass exact_size=0 to the class they extend.
NotJumpFromLastContract == Precondition("NotJumpFromLastContract", <<0>>, "", 0, "")
NotJumpFromMyLastBid == Precondition("NotJumpFromMyLastBid", <<0>>, "", 0, "")
NotJumpFromPartnerLastBid == Precondition("NotJumpFromPartnerLastBid", <<0>>, "", 0, "")

ForcedToBid == Plain("ForcedToBid")
NoOpening == Plain("NoOpening")
NoCompetition == Plain("NoCompetition")
SuitLowerThanMyLastSuit == Plain("SuitLowerThanMyLastSuit")
RebidSameSuit == Plain("RebidSameSuit")
Opened(position) == Precondition("Opened", NoExactSize, position, 0, "")
LastBidHasAnnotation(position, annotation) ==
    Precondition("LastBidHasAnnotation", NoExactSize, position, 0, annotation)
LastBidHasStrain(position, strain) ==
    Precondition("LastBidHasStrain", NoExactSize, position, strain, "")
LastBidWasSuit(position) == Precondition("LastBidWasSuit", NoExactSize, position, 0, "")
LastBidHasLevel(position, level) ==
    Precondition("LastBidHasLevel", NoExactSize, position, level, "")
Strain(strain) == Precondition("Strain", NoExactSize, "", strain, "")
MaxLevel(max_level) == Precondition("MaxLevel", NoExactSize, "", max_level, "")

\* The reference call of each class of the Jump family (its _last_call).
JumpClasses ==
    {"JumpFromLastContract", "JumpFromMyLastBid", "JumpFromPartnerLastBid",
     "NotJumpFromLastContract", "NotJumpFromMyLastBid", "NotJumpFromPartnerLastBid"}

JumpReference(cls) ==
    CASE cls \in {"JumpFromLastContract", "NotJumpFromLastContract"} -> "LastContract"
      [] cls \in {"JumpFromMyLastBid", "NotJumpFromMyLastBid"} -> "MyLastBid"
      [] cls \in {"JumpFromPartnerLastBid", "NotJumpFromPartnerLastBid"} -> "PartnerLastBid"

\* InvertedPrecondition wraps another precondition object.
InvertedPrecondition(precondition) ==
    [cls |-> "InvertedPrecondition", precondition |-> precondition]

\* Python's `not` on what fits handed back: None is falsy, and an exception
\* raised by the operand leaves the expression.
Not(result) ==
    CASE result = "raise" -> "raise"
      [] result = "True" -> "False"
      [] OTHER -> "True"

\* The mutation of InvertedPrecondition.fits that hands the wrapped result on.
InvertedPrecondition_fits_uninverted(inner) == inner

\* InvertedPrecondition.fits, from the result `inner` of the wrapped fits.
InvertedPrecondition_fits(inner) == Not(inner)

\* precondition.fits(history, call), by the class of the precondition.
RECURSIVE fits(_, _, _)
fits(pre, h, call) ==
    CASE pre.cls = "InvertedPrecondition" ->
            InvertedPrecondition_fits(fits(pre.precondition, h, call))
      [] pre.cls \in JumpClasses ->
            Jump_fits(JumpReference(pre.cls), pre.exact_size, h.calls, call)
      [] pre.cls = "ForcedToBid" -> ForcedToBid_fits(h, call)
      [] pre.cls = "NoOpening" -> NoOpening_fits(h, call)
      [] pre.cls = "Opened" -> Opened_fits(pre.position, h, call)
      [] pre.cls = "NoCompetition" -> NoCompetition_fits(h, call)
      [] pre.cls = "LastBidHasAnnotation" ->
            LastBidHasAnnotation_fits(pre.position, pre.annotation, h, call)
      [] pre.cls = "LastBidHasStrain" ->
            LastBidHasStrain_fits(pre.position, pre.arg, h, call)
      [] pre.cls = "LastBidWasSuit" -> LastBidWasSuit_fits(pre.position, h, call)
      [] pre.cls = "LastBidHasLevel" ->
            LastBidHasLevel_fits(pre.position, pre.arg, h, call)
      [] pre.cls = "SuitLowerThanMyLastSuit" -> SuitLowerThanMyLastSuit_fits(h, call)
      [] pre.cls = "RebidSameSuit" -> RebidSameSuit_fits(h, call)
      [] pre.cls = "Strain" -> Strain_fits(pre.arg, h, call)
      [] pre.cls = "MaxLevel" -> MaxLevel_fits(pre.arg, h, call)

\* The preconditions that read the calls of the auction only.
JumpPreconditions ==
    {JumpFromLastContract(e) : e \in ExactSizes}
    \cup {JumpFromMyLastBid(e) : e \in ExactSizes}
    \cup {JumpFromPartnerLastBid(e) : e \in ExactSizes}
    \cup {NotJumpFromLastContract, NotJumpFromMyLastBid, NotJumpFromPartnerLastBid}

StructuralPreconditions ==
    JumpPreconditions
    \cup {SuitLowerThanMyLastSuit, RebidSameSuit, NoCompetition}
    \cup {MaxLevel(n) : n \in 1..MaxAuctionLevel}
    \cup {Strain(s) : s \in STRAINS}
    \cup {LastBidWasSuit(p) : p \in positions}
    \cup {LastBidHasStrain(p, NOTRUMP) : p \in positions}
    \cup {LastBidHasLevel(p, 1) : p \in positions}

\* The preconditions that read the annotations and what is known of partner.
AnnotationPreconditions ==
    {ForcedToBid, NoOpening}
    \cup {Opened(p) : p \in positions}
    \cup {LastBidHasAnnotation(p, a) : p \in positions, a \in annotations}

\* One precondition of each class that reads the calls of the auction.
InvertiblePreconditions ==
    {JumpFromLastContract(NoExactSize), JumpFromMyLastBid(<<1>>),
     NotJumpFromPartnerLastBid, SuitLowerThanMyLastSuit, RebidSameSuit,
     NoCompetition, MaxLevel(1), Strain(HEARTS), LastBidWasSuit("Partner"),
     LastBidHasStrain("Partner", NOTRUMP), LastBidHasLevel("RHO", 1)}

\* Each of them, its inversion and the inversion of that.
InvertedPreconditions ==
    InvertiblePreconditions
    \cup {InvertedPrecondition(pre) : pre \in InvertiblePreconditions}
    \cup {InvertedPrecondition(InvertedPrecondition(pre)) : pre \in InvertiblePreconditions}

----------------------------------------------------------------------------
(* Call names (Call.from_string, Call.name).  A name is the tuple of its   *)
(* characters: <<"2", "C">>, <<"P">>, <<"X">>, <<"X", "X">>.               *)

LevelChars == <<"1", "2", "3", "4", "5", "6", "7">>
StrainChars == <<"C", "D", "H", "S", "N">>

\* Call.from_string
from_string(name) ==
    IF name = <<"P">> THEN Pass
    ELSE IF name = <<"X">> THEN Double
    ELSE IF name = <<"X", "X">> THEN Redouble
    ELSE Contract(CHOOSE l \in DOMAIN LevelChars : LevelChars[l] = name[1],
                  (CHOOSE i \in DOMAIN StrainChars : StrainChars[i] = name[2]) - 1)

\* call.name
name_of(call) ==
    CASE is_pass(call) -> <<"P">>
      [] is_double(call) -> <<"X">>
      [] is_redouble(call) -> <<"X", "X">>
      [] is_contract(call) -> <<LevelChars[call.level], StrainChars[call.strain + 1]>>

----------------------------------------------------------------------------
(* Rule declarations (rules.py, class Rule): the class attributes a        *)
(* subclass sets.  call_name None is <<>>, call_names None is <<>>,        *)
(* priority None is NoPriority; constraints maps names to entries.         *)

NoName == <<>>
NoPriority == "None"

\* An entry of Rule.constraints: a bare expression or Constraint ("expr"),
\* a tuple (expression, priority) ("pair"), or a list of expressions
\* ("list").
ExprEntry(expr) == [kind |-> "expr", expr |-> expr, priority |-> NoPriority]
PairEntry(expr, priority) == [kind |-> "pair", expr |-> expr, priority |-> priority]
ListEntry(expr) == [kind |-> "list", expr |-> expr, priority |-> NoPriority]

NoConstraints == [name \in {} |-> ExprEntry("")]

\* The expression that is trivially true (constraints.NO_CONSTRAINTS).
NO_CONSTRAINTS == "NO_CONSTRAINTS"

\* A priority value (an enum.EnumValue) is an object, and true as a Python
\* condition; None is not.
HasPriority(priority) == priority # NoPriority

\* Rule.__init__: the three assertions.
Rule_init(decl) ==
    /\ HasPriority(decl.priority) \/ DOMAIN decl.constraints # {}
    /\ decl.conditional_priorities = <<>> \/ DOMAIN decl.constraints = {}
    /\ decl.conditional_priorities = <<>> \/ decl.call_name # NoName

\* Rule._fits_preconditions: the first precondition that does not fit ends
\* the loop; one that raises ends it by raising.
RECURSIVE fits_from(_, _, _, _)
fits_from(pres, i, h, call) ==
    IF i > Len(pres) THEN "True"
    ELSE IF fits(pres[i], h, call) = "raise" THEN "raise"
    ELSE IF fits(pres[i], h, call) # "True" THEN "False"
    ELSE fits_from(pres, i + 1, h, call)

_fits_preconditions(decl, h, call) == fits_from(decl.preconditions, 1, h, call)

\* Rule._possible_calls_over: the calls of the declared names, and only
\* for a rule that declares none the legal calls of the auction.
_possible_calls_over(decl, h, universe) ==
    IF decl.call_name # NoName THEN {from_string(decl.call_name)}
    ELSE IF decl.call_names # <<>> THEN {from_string(n) : n \in Range(decl.call_names)}
    ELSE IF DOMAIN decl.constraints # {}
    THEN {from_string(n) : n \in DOMAIN decl.constraints}
    ELSE possible_calls_over(h.calls, universe)

\* Rule.calls_over: the calls yielded, and whether a precondition raised
\* while the generator ran.
calls_over(decl, h, universe) ==
    [calls |-> {c \in _possible_calls_over(decl, h, universe) :
                    _fits_preconditions(decl, h, c) = "True"},
     raised |-> \E c \in _possible_calls_over(decl, h, universe) :
                    _fits_preconditions(decl, h, c) = "raise"]

\* Rule._per_call_constraints_and_priority: the tuple (constraints,
\* priority) it returns; for a list entry the function ends without a
\* return statement and the value is None.
_per_call_constraints_and_priority(decl, call) ==
    IF name_of(call) \notin DOMAIN decl.constraints
    THEN [ret |-> "tuple", constraints |-> <<>>, priority |-> decl.priority]
    ELSE LET entry == decl.constraints[name_of(call)]
         IN  CASE entry.kind = "pair" ->
                    [ret |-> "tuple", constraints |-> <<entry.expr>>,
                     priority |-> entry.priority]
               [] entry.kind = "expr" ->
                    [ret |-> "tuple", constraints |-> <<entry.expr>>,
                     priority |-> decl.priority]
               [] entry.kind = "list" ->
                    [ret |-> "None", constraints |-> <<>>, priority |-> NoPriority]

\* Rule._exprs_from_constraints: absent constraints give the trivially true
\* expression.
_exprs_from_constraints(constraints) ==
    IF constraints = <<>> THEN {NO_CONSTRAINTS} ELSE Range(constraints)

\* A conjunction that leaves the shared constraints out.
constraints_expr_without_shared(decl, h, call) ==
    LET per_call == _per_call_constraints_and_priority(decl, call)
    IN  IF per_call.ret = "None" THEN [raised |-> TRUE, expr |-> {}]
        ELSE [raised |-> FALSE,
              expr |-> IF per_call.constraints # <<>>
                       THEN _exprs_from_constraints(per_call.constraints)
                       ELSE {NO_CONSTRAINTS}]

\* Rule.constraints_expr_for_call: the conjunction, as the set of its
\* conjuncts; unpacking None raises.
constraints_expr_for_call(decl, h, call) ==
    LET per_call == _per_call_constraints_and_priority(decl, call)
    IN  IF per_call.ret = "None" THEN [raised |-> TRUE, expr |-> {}]
        ELSE [raised |-> FALSE,
              expr |-> (IF per_call.constraints # <<>>
                        THEN _exprs_from_constraints(per_call.constraints)
                        ELSE {})
                       \cup _exprs_from_constraints(decl.shared_constraints)]

\* is_possible(solver, expr): the solver state is the set of expressions
\* the hand can satisfy; a conjunction is possible when every conjunct is.
is_possible(solver_state, expr) == (expr \ {NO_CONSTRAINTS}) \subseteq solver_state

\* The last possible condition instead of the first.
RECURSIVE last_possible(_, _, _)
last_possible(conditional_priorities, i, solver_state) ==
    IF i > Len(conditional_priorities) THEN 0
    ELSE IF last_possible(conditional_priorities, i + 1, solver_state) > 0
    THEN last_possible(conditional_priorities, i + 1, solver_state)
    ELSE IF is_possible(solver_state, {conditional_priorities[i].condition}) THEN i
    ELSE 0

\* The conditional priorities that precede the first possible condition,
\* and that one: each costs one query of the solver.
RECURSIVE first_possible(_, _, _)
first_possible(conditional_priorities, i, solver_state) ==
    IF i > Len(conditional_priorities) THEN 0
    ELSE IF is_possible(solver_state, {conditional_priorities[i].condition}) THEN i
    ELSE first_possible(conditional_priorities, i + 1, solver_state)

\* Rule.priority_for_call_and_hand without its decorator: the value it
\* returns and the number of times it asks the solver.
priority_body(decl, solver_state, h, call, hand) ==
    LET full == constraints_expr_for_call(decl, h, call)
        first == first_possible(decl.conditional_priorities, 1, solver_state)
        per_call == _per_call_constraints_and_priority(decl, call)
    IN  IF full.raised THEN [result |-> "raise", asked |-> 0]
        ELSE IF ~is_possible(solver_state, full.expr)
        THEN [result |-> "None", asked |-> 1]
        ELSE IF first > 0
        THEN [result |-> decl.conditional_priorities[first].priority,
              asked |-> 1 + first]
        ELSE [result |-> IF HasPriority(per_call.priority)
                         THEN per_call.priority
                         ELSE decl.priority,
              asked |-> 1 + Len(decl.conditional_priorities)]

----------------------------------------------------------------------------
(* The state machine: the auction grows by one legal call at a time, and   *)
(* between two calls the engine evaluates preconditions on a candidate.    *)

NoResults == [pre \in {} |-> "None"]
NoQuery == [call |-> NoCall, results |-> NoResults]

Declaration(call_name, call_names, constraints, shared_constraints, conditional_priorities, priority, preconditions) ==
    [call_name |-> call_name, call_names |-> call_names,
     constraints |-> constraints, shared_constraints |-> shared_constraints,
     conditional_priorities |-> conditional_priorities, priority |-> priority,
     preconditions |-> preconditions]

\* The attributes of the class Rule itself.
RuleDefaults == Declaration(NoName, <<>>, NoConstraints, <<>>, <<>>, NoPriority, <<>>)

NoRule == [decl |-> RuleDefaults, status |-> "none"]
NoCache == [key \in {} |-> "None"]
NotYielded == [calls |-> {}, raised |-> FALSE, ran |-> FALSE]

Init ==
    /\ call_history = <<>>
    /\ call_annotations = <<>>
    /\ call_max_points = <<>>
    /\ query = NoQuery
    /\ rule = NoRule
    /\ solver = {}
    /\ cache = NoCache
    /\ oracle_calls = 0
    /\ log = <<>>
    /\ yielded = NotYielded
    /\ rules = <<>>

Idle == query = NoQuery /\ ~yielded.ran

\* A call is made; the rule that licensed it attached `annots` to it and
\* showed that the caller holds at most `points` points.
MakeCall(call, annots, points) ==
    /\ Idle
    /\ Len(call_history) < MaxCalls
    /\ IsLegalCall(call_history, call)
    /\ call_history' = Append(call_history, call)
    /\ call_annotations' = Append(call_annotations, annots)
    /\ call_max_points' = Append(call_max_points, points)
    /\ UNCHANGED <<query, yielded, engine>>

\* A call no rule annotated.
PlainCall == \E call \in AuctionCalls : MakeCall(call, <<>>, HandMaxPoints)

\* The preconditions `pres` are evaluated on the candidate `call`.
Evaluate(pres, call) ==
    /\ Idle
    /\ query' = [call |-> call,
                 results |-> [pre \in pres |-> fits(pre, History, call)]]
    /\ UNCHANGED <<auction, yielded, engine>>

EvaluateStructural == \E call \in CandidateCalls : Evaluate(StructuralPreconditions, call)

\* The evaluation returns to the caller.
Return ==
    /\ ~Idle
    /\ query' = NoQuery
    /\ yielded' = NotYielded
    /\ UNCHANGED <<auction, engine>>

Next == PlainCall \/ EvaluateStructural \/ Return

Spec == Init /\ [][Next]_vars

\* The same auction with inverted preconditions among those evaluated.
EvaluateInverted == \E call \in CandidateCalls : Evaluate(InvertedPreconditions, call)

NextInverted == PlainCall \/ EvaluateInverted \/ Return

SpecInverted == Init /\ [][NextInverted]_vars

----------------------------------------------------------------------------
(* The auction with annotations.  The preconditions that read annotations  *)
(* read neither strain nor level of the calls made, so this auction is     *)
(* bid in notrump only; a pass attaches nothing.                           *)

AnnotatedAuctionCalls ==
    {Pass, Double, Redouble} \cup {Contract(l, NOTRUMP) : l \in 1..MaxAuctionLevel}

\* What a call may show of the caller's points: nothing, or a limited hand.
PointBounds == {21, HandMaxPoints}

\* The annotations lists rules declare over the tags modelled.
AnnotationLists == {<<>>, <<"Opening">>, <<"Artificial">>, <<"Opening", "Artificial">>}

AnnotatedCall ==
    \E call \in AnnotatedAuctionCalls :
        \/ /\ is_pass(call)
           /\ MakeCall(call, <<>>, HandMaxPoints)
        \/ /\ ~is_pass(call)
           /\ \E annots \in AnnotationLists, points \in PointBounds :
                 MakeCall(call, annots, points)

EvaluateAnnotated ==
    \E call \in AnnotatedAuctionCalls : Evaluate(AnnotationPreconditions, call)

NextAnnotated == AnnotatedCall \/ EvaluateAnnotated \/ Return

SpecAnnotated == Init /\ [][NextAnnotated]_vars

----------------------------------------------------------------------------
(* The auction in which openings are attached, and attached again: long    *)
(* enough for a seat to call twice, with Opening the only tag.             *)

MaxOpenedCalls == 5
MaxAttached == 2

\* The annotations lists of a rule that opens and of one that does not.
OpeningLists == {<<>>, <<"Opening">>}

\* The preconditions that ask who opened.
OpeningPreconditions == {NoOpening} \cup {Opened(p) : p \in positions}

OpeningCall ==
    \E call \in AnnotatedAuctionCalls, annots \in OpeningLists :
        /\ Idle
        /\ Len(call_history) < MaxOpenedCalls
        /\ IsLegalCall(call_history, call)
        /\ is_pass(call) => annots = <<>>
        /\ call_history' = Append(call_history, call)
        /\ call_annotations' = Append(call_annotations, annots)
        /\ call_max_points' = Append(call_max_points, HandMaxPoints)
        /\ UNCHANGED <<query, yielded, engine>>

\* The Opening annotation a call carries is attached to it once more.
Reattach ==
    \E i \in 1..Len(call_annotations) :
        /\ Idle
        /\ "Opening" \in Range(call_annotations[i])
        /\ Len(call_annotations[i]) < MaxAttached
        /\ call_annotations' = [call_annotations EXCEPT ![i] = Append(@, "Opening")]
        /\ UNCHANGED <<call_history, call_max_points, query, yielded, engine>>

EvaluateOpened ==
    \E call \in AnnotatedAuctionCalls : Evaluate(OpeningPreconditions, call)

NextOpened == OpeningCall \/ Reattach \/ EvaluateOpened \/ Return

SpecOpened == Init /\ [][NextOpened]_vars

----------------------------------------------------------------------------
(* The rule engine: a rule is constructed from a declaration, and its      *)
(* priority is then queried for calls and hands.                           *)

N2C == <<"2", "C">>
N3C == <<"3", "C">>

\* The expressions of the declarations: the per-call expressions of 2C and
\* 3C, the shared constraint, and two conditions.
Atoms == {"e", "f", "s", "c1", "c2"}
Solvers == SUBSET Atoms
Hands == {"hand1", "hand2"}
QueryCalls == {from_string(N2C), from_string(N3C)}

ConstraintMaps ==
    {NoConstraints,
     N2C :> ExprEntry("e"),
     N2C :> PairEntry("e", "P1"),
     N2C :> ListEntry("e"),
     (N2C :> PairEntry("e", "P1")) @@ (N3C :> PairEntry("f", "P2")),
     (N2C :> ExprEntry("e")) @@ (N3C :> ExprEntry("f"))}

Conditional(condition, priority) == [condition |-> condition, priority |-> priority]

ConditionalLists ==
    {<<>>,
     <<Conditional("c1", "Q1")>>,
     <<Conditional("c1", "Q1"), Conditional("c2", "Q2")>>}

RuleDeclarations ==
    {Declaration(call_name, call_names, constraints, shared, conditional, priority, <<>>) :
        call_name \in {NoName, N2C},
        call_names \in {<<>>, <<N2C, N3C>>},
        constraints \in ConstraintMaps,
        shared \in {<<>>, <<"s">>},
        conditional \in ConditionalLists,
        priority \in {NoPriority, "P0"}}

\* rule = SomeRule(): __init__ runs its assertions.
Construct(decl) ==
    /\ rule = NoRule
    /\ rule' = [decl |-> decl,
                status |-> IF Rule_init(decl) THEN "constructed" ELSE "AssertionError"]
    /\ UNCHANGED <<auction, query, yielded, solver, cache, oracle_calls, log, rules>>

ConstructRule == \E decl \in RuleDeclarations : Construct(decl)

\* The arguments the decorator keys its table by (the rule itself first).
CacheKey(decl, solver_state, h, call, hand) ==
    [rule |-> decl, solver |-> solver_state, history |-> h, call |-> call,
     hand |-> hand]

\* third_party.memoized: a call whose arguments are in the table returns
\* the value stored there; any other call runs the function and stores
\* what it returns (nothing is stored when it raises).
Memoized(table, key, computed) ==
    IF key \in DOMAIN table
    THEN [result |-> table[key], asked |-> 0, table |-> table]
    ELSE [result |-> computed.result, asked |-> computed.asked,
          table |-> IF computed.result = "raise"
                    THEN table
                    ELSE table @@ (key :> computed.result)]

\* What a query does to the engine's state: `out` is what the call returned.
Answer(call, hand, out) ==
    /\ cache' = out.table
    /\ oracle_calls' = oracle_calls + out.asked
    /\ log' = Append(log, [call |-> call, hand |-> hand, solver |-> solver,
                           history |-> History, result |-> out.result,
                           oracle_before |-> oracle_calls,
                           oracle_after |-> oracle_calls + out.asked])
    /\ UNCHANGED <<auction, query, yielded, rule, solver, rules>>

\* The method without its decorator: every call runs the body.
priority_for_call_and_hand_undecorated(call, hand) ==
    /\ rule.status = "constructed"
    /\ Len(log) < MaxQueries
    /\ Answer(call, hand,
              [result |-> priority_body(rule.decl, solver, History, call, hand).result,
               asked |-> priority_body(rule.decl, solver, History, call, hand).asked,
               table |-> cache])

\* rule.priority_for_call_and_hand(solver, history, call, hand), memoized.
priority_for_call_and_hand(call, hand) ==
    /\ rule.status = "constructed"
    /\ Len(log) < MaxQueries
    /\ Answer(call, hand,
              Memoized(cache,
                       CacheKey(rule.decl, solver, History, call, hand),
                       priority_body(rule.decl, solver, History, call, hand)))

QueryPriority ==
    \E call \in QueryCalls, hand \in Hands : priority_for_call_and_hand(call, hand)

\* The solver is built for the hand on turn before any rule is consulted.
InitRule ==
    /\ call_history = <<>>
    /\ call_annotations = <<>>
    /\ call_max_points = <<>>
    /\ query = NoQuery
    /\ rule = NoRule
    /\ solver \in Solvers
    /\ cache = NoCache
    /\ oracle_calls = 0
    /\ log = <<>>
    /\ yielded = NotYielded
    /\ rules = <<>>

NextRule == ConstructRule \/ QueryPriority

SpecRule == InitRule /\ [][NextRule]_vars

----------------------------------------------------------------------------
(* Call enumeration: a rule is constructed, the auction goes on, and the   *)
(* rule is asked which calls it could make over the auction.               *)

N1C == <<"1", "C">>
N1D == <<"1", "D">>
N1H == <<"1", "H">>
N1N == <<"1", "N">>

\* How a rule names its calls: not at all, call_name, call_names, or the
\* keys of constraints.
Unnamed(preconditions) ==
    Declaration(NoName, <<>>, NoConstraints, <<>>, <<>>, "P0", preconditions)
Named(name, preconditions) ==
    Declaration(name, <<>>, NoConstraints, <<>>, <<>>, "P0", preconditions)
NamedList(names, preconditions) ==
    Declaration(NoName, names, NoConstraints, <<>>, <<>>, "P0", preconditions)
Keyed(constraints, preconditions) ==
    Declaration(NoName, <<>>, constraints, <<>>, <<>>, "P0", preconditions)

PreconditionLists ==
    {<<>>,
     <<NotJumpFromLastContract>>,
     <<LastBidHasStrain("Partner", NOTRUMP), NoCompetition>>}

CallRuleDeclarations ==
    UNION {{Unnamed(pres),
            Named(N1C, pres),
            Named(<<"X">>, pres),
            NamedList(<<N1D, N1H>>, pres),
            Keyed((N1N :> ExprEntry("e")) @@ (N2C :> ExprEntry("f")), pres)} :
           pres \in PreconditionLists}

ConstructCallRule == \E decl \in CallRuleDeclarations : Construct(decl)

\* list(rule.calls_over(history))
CallsOver ==
    /\ rule.status = "constructed"
    /\ Idle
    /\ yielded' = [calls |-> calls_over(rule.decl, History, CandidateCalls).calls,
                   raised |-> calls_over(rule.decl, History, CandidateCalls).raised,
                   ran |-> TRUE]
    /\ UNCHANGED <<auction, query, engine>>

CallOfRule ==
    /\ rule.status = "constructed"
    /\ PlainCall

NextCalls == ConstructCallRule \/ CallOfRule \/ CallsOver \/ Return

SpecCalls == Init /\ [][NextCalls]_vars

----------------------------------------------------------------------------
(* The catalog (class StandardAmericanYellowCard): the class statements of *)
(* rules.py with the attributes each body assigns, the attributes a class  *)
(* inherits, and the instantiation of every class without subclasses.      *)
(* Expressions over the hand are the atoms of the rule engine: "s" the     *)
(* shared constraints, "e" and "f" the expressions of the constraints'     *)
(* keys in turn, "c1" and "c2" the conditions.  The preconditions, which   *)
(* neither the constructor nor the priority of a call reads, are left out. *)

ClassStatement(name, base, body) == [name |-> name, base |-> base, body |-> body]

\* A class body that assigns none of the attributes.
NoBody == [attribute \in {} |-> <<>>]

\* The class statements of the hierarchy, in the order they run.
ClassStatements ==
    <<
      \* rules.py:152-154
      ClassStatement("Opening", "Rule", NoBody),
      \* rules.py:157-163
      ClassStatement("OneClubOpening", "Opening",
         ("call_name" :> <<"1", "C">>)
         @@ ("shared_constraints" :> <<"s">>)
         @@ ("conditional_priorities" :>
            <<Conditional("c1", "opening_priorities.LongestMinor")>>)
         @@ ("priority" :> "opening_priorities.LowerMinor")),
      \* rules.py:166-172
      ClassStatement("OneDiamondOpening", "Opening",
         ("call_name" :> <<"1", "D">>)
         @@ ("shared_constraints" :> <<"s">>)
         @@ ("conditional_priorities" :>
            <<Conditional("c1", "opening_priorities.LongestMinor")>>)
         @@ ("priority" :> "opening_priorities.HigherMinor")),
      \* rules.py:175-181
      ClassStatement("OneHeartOpening", "Opening",
         ("call_name" :> <<"1", "H">>)
         @@ ("shared_constraints" :> <<"s">>)
         @@ ("conditional_priorities" :>
            <<Conditional("c1", "opening_priorities.LongestMajor")>>)
         @@ ("priority" :> "opening_priorities.LowerMajor")),
      \* rules.py:184-190
      ClassStatement("OneSpadeOpening", "Opening",
         ("call_name" :> <<"1", "S">>)
         @@ ("shared_constraints" :> <<"s">>)
         @@ ("conditional_priorities" :>
            <<Conditional("c1", "opening_priorities.LongestMajor")>>)
         @@ ("priority" :> "opening_priorities.HigherMajor")),
      \* rules.py:193-199
      ClassStatement("NoTrumpOpening", "Opening",
         ("constraints" :>
            ((<<"1", "N">> :> ExprEntry("e"))
             @@ (<<"2", "N">> :> ExprEntry("f"))))
         @@ ("priority" :> "opening_priorities.NoTrumpOpening")),
      \* rules.py:214-217
      ClassStatement("StrongTwoClubs", "Opening",
         ("call_name" :> <<"2", "C">>)
         @@ ("shared_constraints" :> <<"s">>)
         @@ ("priority" :> "opening_priorities.StrongTwoClubs")),
      \* rules.py:237-238
      ClassStatement("Response", "Rule", NoBody),
      \* rules.py:241-244
      ClassStatement("OneDiamondResponse", "Response",
         ("call_name" :> <<"1", "D">>)
         @@ ("shared_constraints" :> <<"s">>)
         @@ ("priority" :> "response_priorities.OneDiamondResponse")),
      \* rules.py:247-254
      ClassStatement("OneHeartResponse", "Response",
         ("call_name" :> <<"1", "H">>)
         @@ ("shared_constraints" :> <<"s">>)
         @@ ("conditional_priorities" :>
            <<Conditional("c1", "response_priorities.LongestNewMajor"),
              Conditional("c2", "response_priorities.OneHeartWithFiveResponse")>>)
         @@ ("priority" :> "response_priorities.OneHeartWithFourResponse")),
      \* rules.py:257-263
      ClassStatement("OneSpadeResponse", "Response",
         ("call_name" :> <<"1", "S">>)
         @@ ("shared_constraints" :> <<"s">>)
         @@ ("conditional_priorities" :>
            <<Conditional("c1", "response_priorities.OneSpadeWithFiveResponse")>>)
         @@ ("priority" :> "response_priorities.OneSpadeWithFourResponse")),
      \* rules.py:266-269
      ClassStatement("OneNotrumpResponse", "Response",
         ("call_name" :> <<"1", "N">>)
         @@ ("shared_constraints" :> <<"s">>)
         @@ ("priority" :> "response_priorities.OneNotrumpResponse")),
      \* rules.py:272-273
      ClassStatement("RaiseResponse", "Response", NoBody),
      \* rules.py:276-279
      ClassStatement("MajorMinimumRaise", "RaiseResponse",
         ("call_names" :> <<<<"2", "H">>, <<"2", "S">>>>)
         @@ ("shared_constraints" :> <<"s">>)
         @@ ("priority" :> "response_priorities.MajorMinimumRaise")),
      \* rules.py:282-285
      ClassStatement("MajorLimitRaise", "RaiseResponse",
         ("call_names" :> <<<<"3", "H">>, <<"3", "S">>>>)
         @@ ("shared_constraints" :> <<"s">>)
         @@ ("priority" :> "response_priorities.MajorLimitRaise")),
      \* rules.py:291-299
      ClassStatement("NewSuitAtTheTwoLevel", "Response",
         ("constraints" :>
            ((<<"2", "C">> :> PairEntry("e", "response_priorities.TwoClubNewSuitResponse"))
             @@ (<<"2", "D">> :> PairEntry("f", "response_priorities.TwoDiamondNewSuitResponse"))
             @@ (<<"2", "H">> :> PairEntry("e", "response_priorities.TwoHeartNewSuitResponse"))
             @@ (<<"2", "S">> :> PairEntry("f", "response_priorities.TwoSpadeNewSuitResponse"))))
         @@ ("shared_constraints" :> <<"s">>)),
      \* rules.py:315-320
      ClassStatement("NoTrumpResponse", "Response", NoBody),
      \* rules.py:323-326
      ClassStatement("BasicStayman", "NoTrumpResponse",
         ("priority" :> "nt_response_priorities.Stayman")
         @@ ("shared_constraints" :> <<"s">>)),
      \* rules.py:329-334
      ClassStatement("Stayman", "BasicStayman",
         ("constraints" :>
            ((<<"2", "C">> :> ExprEntry("e"))
             @@ (<<"3", "C">> :> ExprEntry("f"))))),
      \* rules.py:337-339
      ClassStatement("StolenTwoClubStayman", "BasicStayman",
         ("constraints" :>
            ((<<"X">> :> ExprEntry("e"))))),
      \* rules.py:342-344
      ClassStatement("StolenThreeClubStayman", "BasicStayman",
         ("constraints" :>
            ((<<"X">> :> ExprEntry("e"))))),
      \* rules.py:347-348
      ClassStatement("JacobyTransfer", "NoTrumpResponse", NoBody),
      \* rules.py:351-358
      ClassStatement("JacobyTransferToHearts", "JacobyTransfer",
         ("call_name" :> <<"2", "D">>)
         @@ ("shared_constraints" :> <<"s">>)
         @@ ("conditional_priorities" :>
            <<Conditional("c1", "nt_response_priorities.JacobyTransferToLongerMajor"),
              Conditional("c2", "nt_response_priorities.JacobyTransferToHeartsWithGameForcingValues")>>)
         @@ ("priority" :> "nt_response_priorities.JacobyTransferToHearts")),
      \* rules.py:361-368
      ClassStatement("JacobyTransferToSpades", "JacobyTransfer",
         ("call_name" :> <<"2", "H">>)
         @@ ("shared_constraints" :> <<"s">>)
         @@ ("conditional_priorities" :>
            <<Conditional("c1", "nt_response_priorities.JacobyTransferToLongerMajor"),
              Conditional("c2", "nt_response_priorities.JacobyTransferToSpadesWithGameForcingValues")>>)
         @@ ("priority" :> "nt_response_priorities.JacobyTransferToSpades")),
      \* rules.py:388-389
      ClassStatement("StaymanResponse", "Rule", NoBody),
      \* rules.py:392-399
      ClassStatement("NaturalStaymanResponse", "StaymanResponse",
         ("constraints" :>
            ((<<"2", "H">> :> PairEntry("e", "stayman_response_priorities.HeartStaymanResponse"))
             @@ (<<"2", "S">> :> PairEntry("f", "stayman_response_priorities.SpadeStaymanResponse"))
             @@ (<<"3", "H">> :> PairEntry("e", "stayman_response_priorities.HeartStaymanResponse"))
             @@ (<<"3", "S">> :> PairEntry("f", "stayman_response_priorities.SpadeStaymanResponse"))))),
      \* rules.py:402-405
      ClassStatement("PassStaymanResponse", "StaymanResponse",
         ("call_name" :> <<"P">>)
         @@ ("shared_constraints" :> <<NO_CONSTRAINTS>>)
         @@ ("priority" :> "stayman_response_priorities.PassStaymanResponse")),
      \* rules.py:408-415
      ClassStatement("DiamondStaymanResponse", "StaymanResponse",
         ("constraints" :>
            ((<<"2", "D">> :> ExprEntry(NO_CONSTRAINTS))
             @@ (<<"3", "D">> :> ExprEntry(NO_CONSTRAINTS))))
         @@ ("priority" :> "stayman_response_priorities.DiamondStaymanResponse")),
      \* rules.py:419-422
      ClassStatement("StolenHeartStaymanResponse", "StaymanResponse",
         ("constraints" :>
            ((<<"X">> :> ExprEntry("e"))))
         @@ ("priority" :> "stayman_response_priorities.HeartStaymanResponse")),
      \* rules.py:425-428
      ClassStatement("StolenSpadeStaymanResponse", "StaymanResponse",
         ("constraints" :>
            ((<<"X">> :> ExprEntry("e"))))
         @@ ("priority" :> "stayman_response_priorities.SpadeStaymanResponse")),
      \* rules.py:440-442
      ClassStatement("DirectOvercall", "Rule",
         ("priority" :> "overcall_priorities.DirectOvercall")),
      \* rules.py:445-447
      ClassStatement("OneLevelOvercall", "DirectOvercall",
         ("call_names" :> <<<<"1", "D">>, <<"1", "H">>, <<"1", "S">>>>)
         @@ ("shared_constraints" :> <<"s">>)),
      \* rules.py:457-460
      ClassStatement("TwoLevelPremptiveOpen", "Opening",
         ("call_names" :> <<<<"2", "D">>, <<"2", "H">>, <<"2", "S">>>>)
         @@ ("shared_constraints" :> <<"s">>)
         @@ ("priority" :> "preempt_priorities.TwoLevelPremptive")),
      \* rules.py:463-466
      ClassStatement("ThreeLevelPremptiveOpen", "Opening",
         ("call_names" :> <<<<"3", "C">>, <<"3", "D">>, <<"3", "H">>, <<"3", "S">>>>)
         @@ ("shared_constraints" :> <<"s">>)
         @@ ("priority" :> "preempt_priorities.ThreeLevelPremptive")),
      \* rules.py:469-472
      ClassStatement("FourLevelPremptiveOpen", "Opening",
         ("call_names" :> <<<<"4", "C">>, <<"4", "D">>, <<"4", "H">>, <<"4", "S">>>>)
         @@ ("shared_constraints" :> <<"s">>)
         @@ ("priority" :> "preempt_priorities.FourLevelPremptive")),
      \* rules.py:476-480
      ClassStatement("TwoLevelPremptiveOvercall", "DirectOvercall",
         ("call_names" :> <<<<"2", "C">>, <<"2", "D">>, <<"2", "H">>, <<"2", "S">>>>)
         @@ ("shared_constraints" :> <<"s">>)
         @@ ("priority" :> "overcall_priorities.TwoLevelPremptive")),
      \* rules.py:483-487
      ClassStatement("ThreeLevelPremptiveOvercall", "DirectOvercall",
         ("call_names" :> <<<<"3", "C">>, <<"3", "D">>, <<"3", "H">>, <<"3", "S">>>>)
         @@ ("shared_constraints" :> <<"s">>)
         @@ ("priority" :> "overcall_priorities.ThreeLevelPremptive")),
      \* rules.py:490-494
      ClassStatement("FourLevelPremptiveOvercall", "DirectOvercall",
         ("call_names" :> <<<<"4", "C">>, <<"4", "D">>, <<"4", "H">>, <<"4", "S">>>>)
         @@ ("shared_constraints" :> <<"s">>)
         @@ ("priority" :> "overcall_priorities.FourLevelPremptive")),
      \* rules.py:503-508
      ClassStatement("Gerber", "Rule",
         ("shared_constraints" :> <<NO_CONSTRAINTS>>)
         @@ ("priority" :> "feature_asking_priorites.Gerber")),
      \* rules.py:511-516
      ClassStatement("GerberForAces", "Gerber",
         ("call_name" :> <<"4", "C">>)),
      \* rules.py:519-523
      ClassStatement("GerberForKings", "Gerber",
         ("call_name" :> <<"5", "C">>)),
      \* rules.py:526-543
      ClassStatement("ResponseToGerber", "Rule",
         ("constraints" :>
            ((<<"4", "D">> :> ExprEntry("e"))
             @@ (<<"4", "H">> :> ExprEntry("f"))
             @@ (<<"4", "S">> :> ExprEntry("e"))
             @@ (<<"4", "N">> :> ExprEntry("f"))
             @@ (<<"5", "D">> :> ExprEntry("e"))
             @@ (<<"5", "H">> :> ExprEntry("f"))
             @@ (<<"5", "S">> :> ExprEntry("e"))
             @@ (<<"5", "N">> :> ExprEntry("f"))))
         @@ ("priority" :> "feature_asking_priorites.Gerber"))
    >>

\* The class statement that defined the class.
StatementOf(cls) ==
    ClassStatements[CHOOSE i \in DOMAIN ClassStatements : ClassStatements[i].name = cls]

\* Attribute lookup on a class: its own body, then its base's, up to Rule.
RECURSIVE class_attribute(_, _)
class_attribute(cls, attribute) ==
    IF cls = "Rule" THEN RuleDefaults[attribute]
    ELSE IF attribute \in DOMAIN StatementOf(cls).body
    THEN StatementOf(cls).body[attribute]
    ELSE class_attribute(StatementOf(cls).base, attribute)

\* The attributes an instance of the class reads through self.
DeclarationOf(cls) ==
    Declaration(class_attribute(cls, "call_name"),
                class_attribute(cls, "call_names"),
                class_attribute(cls, "constraints"),
                class_attribute(cls, "shared_constraints"),
                class_attribute(cls, "conditional_priorities"),
                class_attribute(cls, "priority"),
                <<>>)

\* The declaration of every class of the hierarchy, looked up once.
Declarations ==
    [cls \in {ClassStatements[i].name : i \in DOMAIN ClassStatements} |->
        DeclarationOf(cls)]

\* cls.__subclasses__(): the direct subclasses, in the order defined.
RECURSIVE subclasses_from(_, _)
subclasses_from(cls, i) ==
    IF i > Len(ClassStatements) THEN <<>>
    ELSE (IF ClassStatements[i].base = cls THEN <<ClassStatements[i].name>> ELSE <<>>)
         \o subclasses_from(cls, i + 1)

subclasses(cls) == subclasses_from(cls, 1)

\* _get_subclasses: the direct subclasses, extended by the subclasses of
\* each of them in turn.
RECURSIVE _get_subclasses(_)
RECURSIVE extended_from(_, _)
extended_from(direct, i) ==
    IF i > Len(direct) THEN <<>>
    ELSE _get_subclasses(direct[i]) \o extended_from(direct, i + 1)

_get_subclasses(base_class) ==
    subclasses(base_class) \o extended_from(subclasses(base_class), 1)

\* A filter that keeps the classes that have subclasses as well.
all_rule_classes == _get_subclasses("Rule")

\* _concrete_rule_classes: the classes that have no subclasses.
IsConcrete(cls) == subclasses(cls) = <<>>
_concrete_rule_classes == SelectSeq(_get_subclasses("Rule"), IsConcrete)

\* The names a rule declares for its calls: call_name, call_names and the
\* keys of constraints.
DeclaredNames(decl) ==
    (IF decl.call_name # NoName THEN {decl.call_name} ELSE {})
    \cup Range(decl.call_names)
    \cup DOMAIN decl.constraints

\* rules = [rule() for rule in _concrete_rule_classes()]: the next class is
\* instantiated; a failed assertion ends the comprehension.
InstantiateRule ==
    /\ Len(rules) < Len(_concrete_rule_classes)
    /\ \A i \in 1..Len(rules) : rules[i].status = "constructed"
    /\ LET cls == _concrete_rule_classes[Len(rules) + 1]
       IN  rules' = Append(rules,
                [cls |-> cls,
                 status |-> IF Rule_init(Declarations[cls])
                            THEN "constructed" ELSE "AssertionError"])
    /\ UNCHANGED <<auction, query, yielded, rule, solver, cache, oracle_calls, log>>

\* The catalog is complete.
CatalogBuilt ==
    /\ Len(rules) = Len(_concrete_rule_classes)
    /\ \A i \in 1..Len(rules) : rules[i].status = "constructed"

\* A rule of the catalog is taken up: the methods that follow run on it.
TakeRule ==
    /\ CatalogBuilt
    /\ rule = NoRule
    /\ \E i \in 1..Len(rules) :
          rule' = [decl |-> Declarations[rules[i].cls], status |-> rules[i].status]
    /\ UNCHANGED <<auction, query, yielded, solver, cache, oracle_calls, log, rules>>

\* The queries put to the rule taken up from the catalog.
MaxCatalogQueries == 1

\* The rule taken up is asked the priority of a call it declares.
QueryDeclared ==
    \E name \in DeclaredNames(rule.decl), hand \in Hands :
        /\ Len(log) < MaxCatalogQueries
        /\ priority_for_call_and_hand(from_string(name), hand)

NextCatalog == InstantiateRule \/ TakeRule \/ QueryDeclared

SpecCatalog == InitRule /\ [][NextCatalog]_vars


----------------------------------------------------------------------------
(* Properties.                                                             *)

Evaluated == query # NoQuery

\* The reference call a class of the Jump family compares against, read
\* from the auction.
ReferenceOf(cls) ==
    IF cls \in {"JumpFromLastContract", "NotJumpFromLastContract"}
    THEN last_contract(call_history)
    ELSE IF cls \in {"JumpFromMyLastBid", "NotJumpFromMyLastBid"}
    THEN last_call(call_history, "Me")
    ELSE last_call(call_history, "Partner")

JumpsEvaluated == {pre \in DOMAIN query.results : pre.cls \in JumpClasses}

\* The jump size as section 4.1 of the specification states it.
StatedJumpSize(r, c) ==
    IF c.strain <= r.strain THEN c.level - r.level - 1 ELSE c.level - r.level

\* C4: for a contract reference r and a contract candidate c every class of
\* the Jump family computes the size c.level - r.level - 1 when c's strain
\* is at most r's and c.level - r.level otherwise, and fits is (size # 0)
\* without an exact size and (size = exact_size) with one, whichever of the
\* three reference points the class reads; so 1H/1S and 1C/1D fit
\* NotJumpFromLastContract and 1H/3D is a jump of exact size 1.
C4_JumpSize ==
    Evaluated =>
        \A pre \in JumpsEvaluated :
            LET r == ReferenceOf(pre.cls)
                c == query.call
            IN  /\ (is_contract(r) /\ is_contract(c)) =>
                    query.results[pre] =
                        IF pre.exact_size = NoExactSize
                        THEN PyBool(StatedJumpSize(r, c) # 0)
                        ELSE PyBool(StatedJumpSize(r, c) = pre.exact_size[1])
                /\ (/\ pre = NotJumpFromLastContract
                    /\ \/ r = Contract(1, HEARTS) /\ c = Contract(1, SPADES)
                       \/ r = Contract(1, CLUBS) /\ c = Contract(1, DIAMONDS)) =>
                    query.results[pre] = "True"
                /\ (/\ pre = JumpFromLastContract(<<1>>)
                    /\ r = Contract(1, HEARTS)
                    /\ c = Contract(3, DIAMONDS)) =>
                    query.results[pre] = "True"

\* C4 witness: 3D was evaluated over a last contract of 1H bid by partner,
\* and is a jump of exact size 1 from both reference points.
C4_Witness ==
    /\ Evaluated
    /\ query.call = Contract(3, DIAMONDS)
    /\ last_contract(call_history) = Contract(1, HEARTS)
    /\ last_call(call_history, "Partner") = Contract(1, HEARTS)
    /\ query.results[JumpFromLastContract(<<1>>)] = "True"
    /\ query.results[JumpFromPartnerLastBid(<<1>>)] = "True"
    /\ query.results[NotJumpFromLastContract] = "False"

\* C5 as stated: with reference 1S and candidate 3S the jump size is 2, so
\* a Jump with exact_size=2 fits and one with exact_size=1 does not.
C5_SameStrainSizeTwo ==
    Evaluated =>
        \A pre \in JumpsEvaluated :
            (/\ ReferenceOf(pre.cls) = Contract(1, SPADES)
             /\ query.call = Contract(3, SPADES)) =>
                /\ pre.exact_size = <<2>> => query.results[pre] = "True"
                /\ pre.exact_size = <<1>> => query.results[pre] = "False"

\* C5 amended: with reference 1S and candidate 3S the jump size is 1 (the
\* same strain counts as not higher), so a Jump with exact_size=1 fits and
\* one with exact_size=2 does not.
C5_SameStrainSizeOne ==
    Evaluated =>
        \A pre \in JumpsEvaluated :
            (/\ ReferenceOf(pre.cls) = Contract(1, SPADES)
             /\ query.call = Contract(3, SPADES)) =>
                /\ pre.exact_size = <<1>> => query.results[pre] = "True"
                /\ pre.exact_size = <<2>> => query.results[pre] = "False"
                /\ pre.exact_size = NoExactSize => query.results[pre] = "True"

\* C5 witness: 3S was evaluated over a last contract of 1S.
C5_Witness ==
    /\ Evaluated
    /\ query.call = Contract(3, SPADES)
    /\ last_contract(call_history) = Contract(1, SPADES)
    /\ query.results[JumpFromLastContract(<<1>>)] = "True"
    /\ query.results[JumpFromLastContract(<<2>>)] = "False"

\* C6: for every class of the Jump family a Pass candidate never fits, a
\* Double or Redouble candidate gets the result the last contract call
\* would get as the candidate, and when the reference call is absent or is
\* no contract call the result is False and nothing is raised.
C6_JumpGuards ==
    Evaluated =>
        \A pre \in JumpsEvaluated :
            LET r == ReferenceOf(pre.cls)
                c == query.call
            IN  /\ query.results[pre] \in {"True", "False"}
                /\ is_pass(c) => query.results[pre] = "False"
                /\ (IsNone(r) \/ ~is_contract(r)) => query.results[pre] = "False"
                /\ ((is_double(c) \/ is_redouble(c)) /\ is_contract(r)) =>
                    query.results[pre] =
                        IF pre.exact_size = NoExactSize
                        THEN PyBool(StatedJumpSize(r, last_contract(call_history)) # 0)
                        ELSE PyBool(StatedJumpSize(r, last_contract(call_history))
                                        = pre.exact_size[1])

\* C6 witness: a Double was evaluated when partner's last call was a pass
\* and the bidder's own last call, a contract, was overcalled in a higher
\* strain at the same level.
C6_Witness ==
    /\ Evaluated
    /\ is_double(query.call)
    /\ is_pass(last_call(call_history, "Partner"))
    /\ is_contract(last_call(call_history, "Me"))
    /\ last_contract(call_history) # last_call(call_history, "Me")
    /\ query.results[JumpFromPartnerLastBid(NoExactSize)] = "False"
    /\ query.results[NotJumpFromMyLastBid] = "True"
    /\ query.results[JumpFromLastContract(NoExactSize)] = "True"

\* C7: ForcedToBid fits only if partner's last call was not Pass and RHO's
\* last call was Pass; then it fits if partner's last call is Artificial
\* and otherwise iff partner could have more than 25 points; it does not
\* fit when partner's last call is Pass, when RHO's last call is not Pass,
\* or when RHO has made no call.
C7_ForcedToBid ==
    (Evaluated /\ ForcedToBid \in DOMAIN query.results) =>
        LET partner == last_call(call_history, "Partner")
            rho == last_call(call_history, "RHO")
            r == query.results[ForcedToBid]
        IN  /\ r = "True" => (~is_pass(partner) /\ is_pass(rho))
            /\ (~is_pass(partner) /\ is_pass(rho)) =>
                r = PyBool(\/ "Artificial" \in
                                annotations_for_last_call(call_annotations, "Partner")
                           \/ max_points(call_max_points, "Partner") > 25)
            /\ is_pass(partner) => r = "False"
            /\ (~IsNone(rho) /\ ~is_pass(rho)) => r = "False"
            /\ IsNone(rho) => r = "False"

\* C8: fits is total: no precondition raises on any history and candidate;
\* SuitLowerThanMyLastSuit is False when the bidder has no previous call or
\* the previous call is no suit call, and MaxLevel returns a truth value
\* for a Double.
C8_FitsTotal ==
    Evaluated =>
        /\ \A pre \in DOMAIN query.results : query.results[pre] # "raise"
        /\ (/\ SuitLowerThanMyLastSuit \in DOMAIN query.results
            /\ last_call(call_history, "Me").strain \notin SUITS) =>
                query.results[SuitLowerThanMyLastSuit] = "False"
        /\ is_double(query.call) =>
                \A pre \in DOMAIN query.results :
                    pre.cls = "MaxLevel" => query.results[pre] \in {"True", "False"}

----------------------------------------------------------------------------
(* Properties of the rule engine.                                          *)

\* Whether the rule's declared names admit a call; a rule that declares no
\* name admits every call.
NameAdmits(decl, call) ==
    IF decl.call_name # NoName THEN name_of(call) = decl.call_name
    ELSE IF decl.call_names # <<>> THEN name_of(call) \in Range(decl.call_names)
    ELSE IF DOMAIN decl.constraints # {} THEN name_of(call) \in DOMAIN decl.constraints
    ELSE TRUE

AllFit(decl, call) ==
    \A i \in DOMAIN decl.preconditions :
        fits(decl.preconditions[i], History, call) = "True"

\* C1: calls_over yields exactly the legal calls of the auction that the
\* rule's names admit and that fit every precondition; a declared name
\* never adds a call the legal-call enumerator does not produce.
C1_CallsOverLegal ==
    (yielded.ran /\ ~yielded.raised) =>
        /\ yielded.calls \subseteq possible_calls_over(call_history, CandidateCalls)
        /\ yielded.calls =
             {c \in possible_calls_over(call_history, CandidateCalls) :
                 NameAdmits(rule.decl, c) /\ AllFit(rule.decl, c)}

\* The full constraint expression of a call, as section 4.2 states it: the
\* call's own expression, if one is declared, with the shared constraints.
StatedFullExpr(decl, call) ==
    (IF name_of(call) \in DOMAIN decl.constraints
     THEN {decl.constraints[name_of(call)].expr}
     ELSE {})
    \cup Range(decl.shared_constraints)

Satisfiable(expr) == expr \subseteq solver

\* The solver is asked about a call unless the call's entry is a list.
Judged(decl, call) ==
    name_of(call) \in DOMAIN decl.constraints =>
        decl.constraints[name_of(call)].kind # "list"

AllPairs(decl) ==
    /\ DOMAIN decl.constraints # {}
    /\ \A n \in DOMAIN decl.constraints : decl.constraints[n].kind = "pair"

\* C2: a query returns None whenever the solver judges the full constraint
\* expression of the call unsatisfiable, whatever priorities the rule
\* declares; and a rule whose constraints map each name to (expression,
\* priority), with no default priority, returns for a call with a
\* satisfiable expression that call's own priority.
C2_UnsatisfiableNoPriority ==
    \A i \in DOMAIN log :
        LET decl == rule.decl
            call == log[i].call
        IN  /\ (Judged(decl, call) /\ ~Satisfiable(StatedFullExpr(decl, call))) =>
                log[i].result = "None"
            /\ (/\ AllPairs(decl)
                /\ ~HasPriority(decl.priority)
                /\ name_of(call) \in DOMAIN decl.constraints
                /\ Satisfiable(StatedFullExpr(decl, call))) =>
                log[i].result = decl.constraints[name_of(call)].priority

\* C2 witness: a rule {2C: (e, P1), 3C: (f, P2)} with no default priority
\* answered P1 for 2C and None for 3C, whose expression the hand cannot
\* satisfy.
C2_Witness ==
    /\ Len(log) = 2
    /\ rule.decl.constraints = (N2C :> PairEntry("e", "P1")) @@ (N3C :> PairEntry("f", "P2"))
    /\ rule.decl.priority = NoPriority
    /\ log[1].call = from_string(N2C) /\ log[1].result = "P1"
    /\ log[2].call = from_string(N3C) /\ log[2].result = "None"

\* C3: when the full constraint expression is satisfiable the query returns
\* the priority of the first conditional priority, in declared order, whose
\* condition is satisfiable; if none is, the call's own priority when its
\* constraint entry declares one, and otherwise the rule's default.
C3_ConditionalOrder ==
    \A i \in DOMAIN log :
        LET decl == rule.decl
            call == log[i].call
            conds == decl.conditional_priorities
            possible == {k \in DOMAIN conds : Satisfiable({conds[k].condition})}
        IN  (Judged(decl, call) /\ Satisfiable(StatedFullExpr(decl, call))) =>
                IF possible # {}
                THEN \E k \in possible :
                        /\ \A j \in possible : k <= j
                        /\ log[i].result = conds[k].priority
                ELSE IF /\ name_of(call) \in DOMAIN decl.constraints
                        /\ decl.constraints[name_of(call)].kind = "pair"
                THEN log[i].result = decl.constraints[name_of(call)].priority
                ELSE log[i].result = decl.priority

\* C3 witness: both conditions of a rule with two conditional priorities
\* were satisfiable and the query returned the first one's priority.
C3_Witness ==
    /\ Len(log) >= 1
    /\ Len(rule.decl.conditional_priorities) = 2
    /\ {"c1", "c2", "s"} \subseteq solver
    /\ rule.decl.shared_constraints = <<"s">>
    /\ log[1].result = "Q1"

\* The calls a rule can produce by its declared names.
OwnCalls(decl) == {c \in QueryCalls : NameAdmits(decl, c)}

\* C9: a rule that passed construction never returns None for one of its
\* own calls whose constraints are satisfiable; construction accepts a rule
\* only if it has a priority or each of its calls gets one from constraints
\* or conditional_priorities, and accepts conditional_priorities only with
\* a single call_name.
C9_ConstructedHasPriority ==
    rule.status = "constructed" =>
        /\ \A i \in DOMAIN log :
              (/\ log[i].call \in OwnCalls(rule.decl)
               /\ Satisfiable(StatedFullExpr(rule.decl, log[i].call))) =>
                  log[i].result # "None"
        /\ rule.decl.conditional_priorities # <<>> => rule.decl.call_name # NoName

SameQuery(a, b) ==
    /\ a.call = b.call
    /\ a.hand = b.hand
    /\ a.solver = b.solver
    /\ a.history = b.history

----------------------------------------------------------------------------
(* Properties of inverted preconditions, openings and jumps over the last  *)
(* contract.                                                               *)

\* The truth value Python gives to what fits handed back.
Truthy(result) == result = "True"

\* C11: InvertedPrecondition(X).fits(h, c) is `not X.fits(h, c)`: whenever
\* X.fits hands back a value, the inversion hands back the boolean
\* complement of its truth value and the inversion of the inversion hands
\* back a boolean of the same truth value as X's; when X.fits raises, the
\* exception passes through both.
C11_InvertedComplement ==
    Evaluated =>
        \A X \in DOMAIN query.results :
            LET x == query.results[X]
                inverted == InvertedPrecondition(X)
                twice == InvertedPrecondition(inverted)
            IN  /\ inverted \in DOMAIN query.results =>
                    query.results[inverted] =
                        IF x = "raise" THEN "raise" ELSE PyBool(~Truthy(x))
                /\ twice \in DOMAIN query.results =>
                    query.results[twice] =
                        IF x = "raise" THEN "raise" ELSE PyBool(Truthy(x))

\* C11 witness: 1H was evaluated with no call by RHO yet; Strain(HEARTS)
\* fits, its inversion does not and the double inversion does, while
\* NoCompetition handed back None, its inversion True and the double
\* inversion False.
C11_Witness ==
    /\ Evaluated
    /\ query.call = Contract(1, HEARTS)
    /\ Strain(HEARTS) \in DOMAIN query.results
    /\ query.results[Strain(HEARTS)] = "True"
    /\ query.results[InvertedPrecondition(Strain(HEARTS))] = "False"
    /\ query.results[InvertedPrecondition(InvertedPrecondition(Strain(HEARTS)))] = "True"
    /\ query.results[NoCompetition] = "None"
    /\ query.results[InvertedPrecondition(NoCompetition)] = "True"
    /\ query.results[InvertedPrecondition(InvertedPrecondition(NoCompetition))] = "False"

\* The seat that made call i, counted round the table from the first call.
SeatOfCall(i) == i % 4

\* The seat of a position, the player on turn being the one to call next.
SeatOfPosition(position) ==
    LET turn == Len(call_history) + 1
    IN  CASE position = "Me" -> turn % 4
          [] position = "LHO" -> (turn + 1) % 4
          [] position = "Partner" -> (turn + 2) % 4
          [] position = "RHO" -> (turn + 3) % 4

\* Some call made by the position carries the Opening annotation.
CarriesOpening(position) ==
    \E i \in 1..Len(call_history) :
        /\ SeatOfCall(i) = SeatOfPosition(position)
        /\ \E k \in 1..Len(call_annotations[i]) : call_annotations[i][k] = "Opening"

\* C12: after any calls and annotations Opened(P) fits iff some call made
\* by position P carries Opening, and NoOpening fits iff Opened(P) fits for
\* none of the four positions; the candidate call and how many times the
\* Opening annotation was attached to a call make no difference.
C12_OpenedIffOpening ==
    (Evaluated /\ NoOpening \in DOMAIN query.results) =>
        /\ \A p \in positions :
            query.results[Opened(p)] = PyBool(CarriesOpening(p))
        /\ query.results[NoOpening] =
            PyBool(\A p \in positions : query.results[Opened(p)] = "False")

\* C12 witness: five calls were made, the first carries Opening attached
\* twice, and the same seat's second call, the last of the auction,
\* carries none; Opened fits for that seat alone and NoOpening does not.
C12_Witness ==
    /\ Evaluated
    /\ Len(call_history) = 5
    /\ call_annotations[1] = <<"Opening", "Opening">>
    /\ \A i \in 2..5 : call_annotations[i] = <<>>
    /\ query.results[Opened("RHO")] = "True"
    /\ \A p \in positions \ {"RHO"} : query.results[Opened(p)] = "False"
    /\ query.results[NoOpening] = "False"

\* The contract c outbids the contract r: a higher level, or the same level
\* in a higher strain.
Outbids(c, r) == c.level > r.level \/ (c.level = r.level /\ c.strain > r.strain)

\* The contract c is the lowest bid of its strain that outbids r.
CheapestInStrain(c, r) ==
    /\ Outbids(c, r)
    /\ \A l \in 1..(c.level - 1) : ~Outbids(Contract(l, c.strain), r)

\* C13: when a last contract is established and the candidate is a contract
\* call legal over the auction, the jump size against the last contract is
\* not negative, NotJumpFromLastContract fits exactly when the candidate is
\* the cheapest legal bid of its strain, and JumpFromLastContract without
\* an exact size fits exactly when it is not.
C13_LegalJumpNonNegative ==
    LET r == last_contract(call_history)
        c == query.call
    IN  (/\ Evaluated
         /\ NotJumpFromLastContract \in DOMAIN query.results
         /\ is_contract(r)
         /\ is_contract(c)
         /\ IsLegalCall(call_history, c)) =>
            /\ _jump_size(r, c) >= 0
            /\ \A e \in 0..MaxExactSize :
                   query.results[JumpFromLastContract(<<e>>)] = "True" =>
                       e = _jump_size(r, c)
            /\ query.results[NotJumpFromLastContract] = PyBool(CheapestInStrain(c, r))
            /\ query.results[JumpFromLastContract(NoExactSize)] =
                   PyBool(~CheapestInStrain(c, r))

\* C13 witness: over a last contract of 1H the legal candidate 2C, the
\* cheapest club bid, was evaluated: no jump, of size 0.
C13_Witness ==
    /\ Evaluated
    /\ last_contract(call_history) = Contract(1, HEARTS)
    /\ query.call = Contract(2, CLUBS)
    /\ IsLegalCall(call_history, query.call)
    /\ query.results[NotJumpFromLastContract] = "True"
    /\ query.results[JumpFromLastContract(NoExactSize)] = "False"
    /\ query.results[JumpFromLastContract(<<0>>)] = "True"

\* C14: when a last contract is established, a Double or Redouble candidate
\* is measured as that contract against itself, a jump size of -1: so
\* JumpFromLastContract without an exact size fits it, NotJumpFromLastContract
\* does not, and no exact size from 0 up fits it.
C14_DoubleMeasuredAsLastContract ==
    LET r == last_contract(call_history)
        c == query.call
    IN  (/\ Evaluated
         /\ NotJumpFromLastContract \in DOMAIN query.results
         /\ is_contract(r)
         /\ is_double(c) \/ is_redouble(c)) =>
            /\ Jump_compared_call(call_history, c) = r
            /\ _jump_size(r, Jump_compared_call(call_history, c)) = -1
            /\ query.results[JumpFromLastContract(NoExactSize)] = "True"
            /\ query.results[NotJumpFromLastContract] = "False"
            /\ \A e \in 0..MaxExactSize :
                   query.results[JumpFromLastContract(<<e>>)] = "False"

\* C14 witness: a Redouble was evaluated after 1S was doubled; it counts as
\* a jump from the last contract and not as a non-jump.
C14_Witness ==
    /\ Evaluated
    /\ is_redouble(query.call)
    /\ last_contract(call_history) = Contract(1, SPADES)
    /\ is_double(last_call(call_history, "RHO"))
    /\ query.results[JumpFromLastContract(NoExactSize)] = "True"
    /\ query.results[NotJumpFromLastContract] = "False"

\* The classes of the hierarchy that no class statement names as its base.
LeafClasses ==
    {ClassStatements[i].name : i \in DOMAIN ClassStatements}
    \ {ClassStatements[i].base : i \in DOMAIN ClassStatements}

\* The hand can satisfy the call's own expression and the shared ones.
DeclaredSatisfiable(decl, call, solver_state) ==
    (StatedFullExpr(decl, call) \ {NO_CONSTRAINTS}) \subseteq solver_state

\* C15: the catalog holds leaf classes of the Rule hierarchy only, each
\* once, and when it is complete all of them; every rule in it passed the
\* constructor's assertions; for every name a catalog rule declares
\* _per_call_constraints_and_priority returns a tuple with a priority; and
\* a catalog rule asked for a declared call whose constraints the hand can
\* satisfy returns a priority.
C15_CatalogPriorities ==
    /\ \A i \in 1..Len(rules) :
          /\ rules[i].cls \in LeafClasses
          /\ rules[i].status = "constructed"
          /\ \A j \in 1..Len(rules) : rules[j].cls = rules[i].cls => j = i
          /\ \A name \in DeclaredNames(Declarations[rules[i].cls]) :
                LET per_call == _per_call_constraints_and_priority(
                                    Declarations[rules[i].cls], from_string(name))
                IN  /\ per_call.ret = "tuple"
                    /\ per_call.priority # NoPriority
    /\ Len(rules) = Len(_concrete_rule_classes) =>
          {rules[i].cls : i \in 1..Len(rules)} = LeafClasses
    /\ rule.status = "constructed" =>
          \A k \in DOMAIN log :
              (/\ name_of(log[k].call) \in DeclaredNames(rule.decl)
               /\ DeclaredSatisfiable(rule.decl, log[k].call, log[k].solver)) =>
                  log[k].result \notin {"None", "raise"}

\* C15 witness: the catalog is complete and NaturalStaymanResponse, which
\* has no priority of its own, answered for 2H the priority its constraints
\* pair with 2H.
C15_Witness ==
    /\ CatalogBuilt
    /\ {rules[i].cls : i \in 1..Len(rules)} = LeafClasses
    /\ rule.decl = Declarations["NaturalStaymanResponse"]
    /\ rule.decl.priority = NoPriority
    /\ Len(log) >= 1
    /\ log[1].call = Contract(2, HEARTS)
    /\ log[1].result = "stayman_response_priorities.HeartStaymanResponse"

============================================================================
